---- MODULE Spec2Model ----
(***************************************************************************)
(* Personal Library Manager (src/library_manager.py).                      *)
(*                                                                         *)
(* The Streamlit script keeps the collection in st.session_state and       *)
(* rewrites library.json after every mutation.  Every user interaction     *)
(* runs the script once from the top: fetch_library_data (line 432), then  *)
(* the active view with the handler of the widget used; st.rerun() ends    *)
(* the run and starts the script again with no widget used.                *)
(*                                                                         *)
(* Python strings are sequences of one-character strings; list indices     *)
(* are Python's (0-based) in the operators' parameters.  A list holds      *)
(* references: find_books stores in search_output the dict objects of      *)
(* book_collection themselves (line 307), which search_shared records.     *)
(***************************************************************************)
EXTENDS Integers, Sequences, FiniteSets, TLC

VARIABLES
    book_collection,    \* st.session_state.book_collection (line 199)
    search_output,      \* st.session_state.search_output (line 201)
    search_shared,      \* for each record of search_output: the index at which
                        \* book_collection holds the same dict object, or -1
    new_book_flag,      \* st.session_state.new_book_flag (line 203)
    book_deleted_flag,  \* st.session_state.book_deleted_flag (line 205)
    library_json,       \* the file library.json: [exists, data]
    pc,                 \* where the running script (or the running save) is
    rerun,              \* st.rerun() started the running script
    io_failures,        \* how many saves the operating system has failed so far
    call                \* what the last step did and returned (observations)

vars == <<book_collection, search_output, search_shared, new_book_flag,
          book_deleted_flag, library_json, pc, rerun, io_failures, call>>

(***************************************************************************)
(* Bounds of the model.                                                    *)
(***************************************************************************)
MaxBooks == 2
\* saves the operating system may fail in one session
MaxFailures == 1

(***************************************************************************)
(* Python strings.                                                         *)
(***************************************************************************)
UpperLetters == <<"A","B","C","D","E","F","G","H","I","J","K","L","M",
                  "N","O","P","Q","R","S","T","U","V","W","X","Y","Z">>
LowerLetters == <<"a","b","c","d","e","f","g","h","i","j","k","l","m",
                  "n","o","p","q","r","s","t","u","v","w","x","y","z">>

\* str.lower() on one character
LowerChar(c) ==
    IF \E i \in 1..Len(UpperLetters) : UpperLetters[i] = c
    THEN LowerLetters[CHOOSE i \in 1..Len(UpperLetters) : UpperLetters[i] = c]
    ELSE c

\* str.lower()
lower(s) == [i \in 1..Len(s) |-> LowerChar(s[i])]

\* Python's  sub in s  on strings: sub occurs in s as a contiguous run
\* (the empty string occurs in every string)
str_in(sub, s) ==
    \E i \in 0..(Len(s) - Len(sub)) : SubSeq(s, i + 1, i + Len(sub)) = sub

(***************************************************************************)
(* json.dump / json.load on a list of book dicts.                          *)
(* A file is a sequence of tokens  [k, v]:  k is "[", ",", "]" or "{}",    *)
(* and for "{}" v holds the object's members, each value in its JSON text  *)
(* (a string escaped and quoted, an int in decimal, a bool as true/false). *)
(***************************************************************************)
Keys == {"title", "author", "publication_year", "genre", "read_status", "added_date"}

\* characters json.dump (ensure_ascii=True) writes as \uXXXX escapes
NonAscii == {"U+1F409", "U+1F680"}

\* json_escape leaving the backslash as it is
RECURSIVE json_escape_keeps_backslash(_)
json_escape_keeps_backslash(s) ==
    IF s = <<>> THEN <<>>
    ELSE LET c == Head(s) IN
         (IF c = "\"" THEN <<"\\", "\"">>
          ELSE IF c \in NonAscii THEN <<"\\", "u", c>>
          ELSE <<c>>) \o json_escape_keeps_backslash(Tail(s))

RECURSIVE json_escape(_)
json_escape(s) ==
    IF s = <<>> THEN <<>>
    ELSE LET c == Head(s) IN
         (IF c = "\"" THEN <<"\\", "\"">>
          ELSE IF c = "\\" THEN <<"\\", "\\">>
          ELSE IF c \in NonAscii THEN <<"\\", "u", c>>
          ELSE <<c>>) \o json_escape(Tail(s))

RECURSIVE json_unescape(_)
json_unescape(s) ==
    IF s = <<>> THEN <<>>
    ELSE IF Head(s) = "\\" /\ Len(s) >= 2
         THEN IF s[2] = "u" /\ Len(s) >= 3
              THEN <<s[3]>> \o json_unescape(SubSeq(s, 4, Len(s)))
              ELSE <<s[2]>> \o json_unescape(SubSeq(s, 3, Len(s)))
         ELSE <<Head(s)>> \o json_unescape(Tail(s))

Digits == <<"0","1","2","3","4","5","6","7","8","9">>

RECURSIVE int_to_text(_)
int_to_text(n) ==
    IF n < 10 THEN <<Digits[n + 1]>>
    ELSE int_to_text(n \div 10) \o <<Digits[(n % 10) + 1]>>

DigitValue(c) == (CHOOSE i \in 1..10 : Digits[i] = c) - 1

RECURSIVE text_to_int(_)
text_to_int(s) ==
    IF Len(s) = 1 THEN DigitValue(s[1])
    ELSE text_to_int(SubSeq(s, 1, Len(s) - 1)) * 10 + DigitValue(s[Len(s)])

json_str(s) == <<"\"">> \o json_escape(s) \o <<"\"">>
json_bool(b) == IF b THEN <<"t","r","u","e">> ELSE <<"f","a","l","s","e">>

\* one book dict as a JSON object
json_object(book) ==
    [title            |-> json_str(book.title),
     author           |-> json_str(book.author),
     publication_year |-> int_to_text(book.publication_year),
     genre            |-> json_str(book.genre),
     read_status      |-> json_bool(book.read_status),
     added_date       |-> json_str(book.added_date)]

NoMembers == [k \in Keys |-> <<>>]
Tok(kind) == [k |-> kind, v |-> NoMembers]
ObjTok(book) == [k |-> "{}", v |-> json_object(book)]

RECURSIVE json_items(_)
json_items(books) ==
    IF books = <<>> THEN <<>>
    ELSE IF Len(books) = 1 THEN <<ObjTok(books[1])>>
    ELSE <<ObjTok(books[1]), Tok(",")>> \o json_items(Tail(books))

\* json.dump(book_collection, file): the whole text written
json_dump(books) == <<Tok("[")>> \o json_items(books) \o <<Tok("]")>>

json_parse_str(t) == json_unescape(SubSeq(t, 2, Len(t) - 1))

json_parse_object(o) ==
    [title            |-> json_parse_str(o.title),
     author           |-> json_parse_str(o.author),
     publication_year |-> text_to_int(o.publication_year),
     genre            |-> json_parse_str(o.genre),
     read_status      |-> (o.read_status = <<"t","r","u","e">>),
     added_date       |-> json_parse_str(o.added_date)]

\* the item list between the brackets is well formed: objects separated by commas
RECURSIVE items_ok(_)
items_ok(ts) ==
    IF ts = <<>> THEN TRUE
    ELSE IF Head(ts).k # "{}" THEN FALSE
    ELSE IF Len(ts) = 1 THEN TRUE
    ELSE ts[2].k = "," /\ Len(ts) >= 3 /\ items_ok(SubSeq(ts, 3, Len(ts)))

RECURSIVE parse_items(_)
parse_items(ts) ==
    IF ts = <<>> THEN <<>>
    ELSE <<json_parse_object(Head(ts).v)>> \o
         (IF Len(ts) = 1 THEN <<>> ELSE parse_items(SubSeq(ts, 3, Len(ts))))

\* json.load(file): [ok, value]; ok = FALSE stands for json.JSONDecodeError
json_load(data) ==
    IF /\ Len(data) >= 2
       /\ data[1].k = "["
       /\ data[Len(data)].k = "]"
       /\ items_ok(SubSeq(data, 2, Len(data) - 1))
    THEN [ok |-> TRUE, value |-> parse_items(SubSeq(data, 2, Len(data) - 1))]
    ELSE [ok |-> FALSE, value |-> <<>>]

(***************************************************************************)
(* The backing file and the outcomes of writing it.                        *)
(***************************************************************************)
NoFile == [exists |-> FALSE, data |-> <<>>]
FileOf(data) == [exists |-> TRUE, data |-> data]

\* What the operating system does to one save: it goes through ("ok"),
\* open('library.json', 'w') raises and the file is untouched ("open"), or
\* the file is truncated and the write stops after cut tokens ("dump").
IOFailures(books) ==
    {[kind |-> "open", cut |-> 0]} \cup
    {[kind |-> "dump", cut |-> n] : n \in 0..(Len(json_dump(books)) - 1)}

IOOutcomes(books, failures) ==
    {[kind |-> "ok", cut |-> 0]} \cup
    (IF failures < MaxFailures THEN IOFailures(books) ELSE {})

Failed(io) == IF io.kind = "ok" THEN 0 ELSE 1

(***************************************************************************)
(* fetch_library_data (lines 209-226).                                     *)
(* Returns the collection after the call, the return value, and whether    *)
(* st.error was called.  Reading a file that exists is taken to succeed:   *)
(* the except branch is reached by a file json.load rejects.               *)
(***************************************************************************)
\* fetch_library_data emptying the collection when there is no file
fetch_clears_when_missing(books, file) ==
    IF file.exists
    THEN LET parsed == json_load(file.data) IN
         IF parsed.ok
         THEN [book_collection |-> parsed.value, ret |-> TRUE, error |-> FALSE]
         ELSE [book_collection |-> books, ret |-> FALSE, error |-> TRUE]
    ELSE [book_collection |-> <<>>, ret |-> FALSE, error |-> FALSE]

fetch_library_data(books, file) ==
    IF file.exists
    THEN LET parsed == json_load(file.data) IN
         IF parsed.ok
         THEN [book_collection |-> parsed.value, ret |-> TRUE, error |-> FALSE]
         ELSE [book_collection |-> books, ret |-> FALSE, error |-> TRUE]
    ELSE [book_collection |-> books, ret |-> FALSE, error |-> FALSE]

(***************************************************************************)
(* persist_library_data (lines 228-243).                                   *)
(***************************************************************************)
persist_library_data(books, file, io) ==
    IF io.kind = "ok"
    THEN [library_json |-> FileOf(json_dump(books)), ret |-> TRUE]
    ELSE IF io.kind = "open"
    THEN [library_json |-> file, ret |-> FALSE]
    ELSE [library_json |-> FileOf(SubSeq(json_dump(books), 1, io.cut)), ret |-> FALSE]

(***************************************************************************)
(* insert_book (lines 245-271).  now is datetime.now() formatted.          *)
(***************************************************************************)
new_entry(book_title, book_author, pub_year, book_genre, is_read, now) ==
    [title            |-> book_title,
     author           |-> book_author,
     publication_year |-> pub_year,
     genre            |-> book_genre,
     read_status      |-> is_read,
     added_date       |-> now]

\* insert_book with the save made before the append
insert_book_saves_first(books, file, book_title, book_author, pub_year, book_genre, is_read, now, io) ==
    LET saved == persist_library_data(books, file, io)
    IN  [book_collection |-> Append(books, new_entry(book_title, book_author, pub_year,
                                                      book_genre, is_read, now)),
         library_json    |-> saved.library_json,
         saved           |-> IF saved.ret THEN "ok" ELSE "failed",
         new_book_flag   |-> TRUE]

insert_book(books, file, book_title, book_author, pub_year, book_genre, is_read, now, io) ==
    LET appended == Append(books, new_entry(book_title, book_author, pub_year,
                                             book_genre, is_read, now))
        saved    == persist_library_data(appended, file, io)
    IN  [book_collection |-> appended,
         library_json    |-> saved.library_json,
         saved           |-> IF saved.ret THEN "ok" ELSE "failed",
         new_book_flag   |-> TRUE]

(***************************************************************************)
(* delete_book (lines 273-289).                                            *)
(***************************************************************************)
\* delete_book with  <=  for  <  in the guard
delete_book_off_by_one(books, file, flag, book_index, io) ==
    IF 0 <= book_index /\ book_index <= Len(books)
    THEN LET removed == SubSeq(books, 1, book_index) \o
                        SubSeq(books, book_index + 2, Len(books))
             saved   == persist_library_data(removed, file, io)
         IN  [book_collection   |-> removed,
              library_json      |-> saved.library_json,
              saved             |-> IF saved.ret THEN "ok" ELSE "failed",
              book_deleted_flag |-> TRUE,
              ret               |-> TRUE]
    ELSE [book_collection   |-> books,
          library_json      |-> file,
          saved             |-> "none",
          book_deleted_flag |-> flag,
          ret               |-> FALSE]

delete_book(books, file, flag, book_index, io) ==
    IF 0 <= book_index /\ book_index < Len(books)
    THEN LET removed == SubSeq(books, 1, book_index) \o
                        SubSeq(books, book_index + 2, Len(books))
             saved   == persist_library_data(removed, file, io)
         IN  [book_collection   |-> removed,
              library_json      |-> saved.library_json,
              saved             |-> IF saved.ret THEN "ok" ELSE "failed",
              book_deleted_flag |-> TRUE,
              ret               |-> TRUE]
    ELSE [book_collection   |-> books,
          library_json      |-> file,
          saved             |-> "none",
          book_deleted_flag |-> flag,
          ret               |-> FALSE]

(***************************************************************************)
(* The status button of book i in the library view (lines 523-527).        *)
(***************************************************************************)
\* the status button writing to book 0 whatever i is
toggle_first_book(books, file, i, io) ==
    LET new_status == ~ books[i + 1].read_status
        updated    == [books EXCEPT ![1].read_status = new_status]
        saved      == persist_library_data(updated, file, io)
    IN  [book_collection |-> updated,
         library_json    |-> saved.library_json,
         saved           |-> IF saved.ret THEN "ok" ELSE "failed"]

toggle_read_status(books, file, i, io) ==
    LET new_status == ~ books[i + 1].read_status
        updated    == [books EXCEPT ![i + 1].read_status = new_status]
        saved      == persist_library_data(updated, file, io)
    IN  [book_collection |-> updated,
         library_json    |-> saved.library_json,
         saved           |-> IF saved.ret THEN "ok" ELSE "failed"]

(***************************************************************************)
(* find_books (lines 291-312): the value stored in search_output.          *)
(***************************************************************************)
book_matches(book, query, search_field) ==
    IF search_field = "Title" /\ str_in(query, lower(book.title)) THEN TRUE
    ELSE IF search_field = "Author" /\ str_in(query, lower(book.author)) THEN TRUE
    ELSE IF search_field = "Genre" /\ str_in(query, book.genre) THEN TRUE
    ELSE FALSE

RECURSIVE matching_books(_, _, _)
matching_books(books, query, search_field) ==
    IF books = <<>> THEN <<>>
    ELSE (IF book_matches(Head(books), query, search_field)
          THEN <<Head(books)>> ELSE <<>>)
         \o matching_books(Tail(books), query, search_field)

find_books(books, search_query, search_field) ==
    matching_books(books, lower(search_query), search_field)

\* matches.append(book) (line 307) appends the dict object of book_collection
\* itself: the indices of the appended objects, in the order they are appended
found_at(books, search_query, search_field) ==
    LET hits == {i \in DOMAIN books :
                    book_matches(books[i], lower(search_query), search_field)}
    IN  [n \in 1..Cardinality(hits) |->
            (CHOOSE i \in hits : Cardinality({j \in hits : j < i}) = n - 1) - 1]

(***************************************************************************)
(* What the other functions do to the objects search_output shares.       *)
(***************************************************************************)
\* line 219: json.load builds a new list of new dicts
shared_after_load(shared) == [n \in DOMAIN shared |-> -1]

\* line 285: del book_collection[book_index] takes one object out of the list
shared_after_del(shared, book_index) ==
    [n \in DOMAIN shared |->
        IF shared[n] = book_index THEN -1
        ELSE IF shared[n] > book_index THEN shared[n] - 1
        ELSE shared[n]]

\* line 525 assigns into a dict of book_collection: a stored result that is that
\* dict shows the new value
results_seen(output, shared, books) ==
    [n \in DOMAIN output |->
        IF shared[n] >= 0 THEN books[shared[n] + 1] ELSE output[n]]

(***************************************************************************)
(* compute_library_metrics (lines 314-363).                                *)
(* completion_rate is the exact fraction num/den of the float the code     *)
(* computes; den = 0 stands for ZeroDivisionError.                         *)
(* A dict is the sequence of its items [k, v] in insertion order, which is *)
(* the order Python iterates it in.                                        *)
(***************************************************************************)
RECURSIVE count_read(_)
count_read(books) ==
    IF books = <<>> THEN 0
    ELSE (IF Head(books).read_status THEN 1 ELSE 0) + count_read(Tail(books))

\* completion_rate without the  if book_count > 0  guard
completion_rate_unguarded(completed_books, book_count) ==
    [num |-> completed_books * 100, den |-> book_count]

completion_rate(completed_books, book_count) ==
    IF book_count > 0
    THEN [num |-> completed_books * 100, den |-> book_count]
    ELSE [num |-> 0, den |-> 1]

\* d.get(key, 0)
dict_get(d, key) ==
    IF \E i \in DOMAIN d : d[i].k = key
    THEN d[CHOOSE i \in DOMAIN d : d[i].k = key].v
    ELSE 0

\* d[key] = value: a key already present keeps its place, a new one goes last
dict_set(d, key, value) ==
    IF \E i \in DOMAIN d : d[i].k = key
    THEN [i \in DOMAIN d |-> IF d[i].k = key THEN [k |-> key, v |-> value] ELSE d[i]]
    ELSE Append(d, [k |-> key, v |-> value])

\* the loop of lines 340-349 for one of the three dicts;
\* keys are the keys of the books in collection order
RECURSIVE distribution(_, _)
distribution(keys, d) ==
    IF keys = <<>> THEN d
    ELSE distribution(Tail(keys), dict_set(d, Head(keys), dict_get(d, Head(keys)) + 1))

\* line 348
decade(publication_year) == (publication_year \div 10) * 10

\* sorted(items, key=lambda x: x[1], reverse=True) done as sorted(...)[::-1]:
\* equal counts come out in reverse order
RECURSIVE sorted_by_count_reversed(_)
sorted_by_count_reversed(items) ==
    IF items = <<>> THEN <<>>
    ELSE LET rest == sorted_by_count_reversed(Tail(items))
             x    == Head(items)
             n    == Cardinality({i \in DOMAIN rest : rest[i].v >= x.v})
         IN  SubSeq(rest, 1, n) \o <<x>> \o SubSeq(rest, n + 1, Len(rest))

\* sorted(items, key=lambda x: x[1], reverse=True) (lines 352-353): list.sort is
\* stable, also with reverse=True, so x goes behind every later item of a larger
\* count and ahead of every later item of an equal or smaller count
RECURSIVE sorted_by_count_desc(_)
sorted_by_count_desc(items) ==
    IF items = <<>> THEN <<>>
    ELSE LET rest == sorted_by_count_desc(Tail(items))
             x    == Head(items)
             n    == Cardinality({i \in DOMAIN rest : rest[i].v > x.v})
         IN  SubSeq(rest, 1, n) \o <<x>> \o SubSeq(rest, n + 1, Len(rest))

\* sorted(items, key=lambda x: x[0]) (line 354); the keys of a dict are distinct
RECURSIVE sorted_by_key(_)
sorted_by_key(items) ==
    IF items = <<>> THEN <<>>
    ELSE LET rest == sorted_by_key(Tail(items))
             x    == Head(items)
             n    == Cardinality({i \in DOMAIN rest : rest[i].k < x.k})
         IN  SubSeq(rest, 1, n) \o <<x>> \o SubSeq(rest, n + 1, Len(rest))

compute_library_metrics(books) ==
    LET book_count      == Len(books)
        completed_books == count_read(books)
        genre_distribution  == distribution([i \in DOMAIN books |-> books[i].genre], <<>>)
        author_distribution == distribution([i \in DOMAIN books |-> books[i].author], <<>>)
        decade_distribution ==
            distribution([i \in DOMAIN books |-> decade(books[i].publication_year)], <<>>)
    IN  [total_books  |-> book_count,
         read_books   |-> completed_books,
         percent_read |-> completion_rate(completed_books, book_count),
         genres       |-> sorted_by_count_desc(genre_distribution),
         authors      |-> sorted_by_count_desc(author_distribution),
         decades      |-> sorted_by_key(decade_distribution)]

(***************************************************************************)
(* What the user can enter.                                                *)
(***************************************************************************)
Dune     == <<"D","u","n","e">>
Hobbit   == <<"H","o","b","b","i","t">>
Herbert  == <<"H","e","r","b","e","r","t">>
Tolkien  == <<"T","o","l","k","i","e","n">>
\* two entries of the category selectbox (line 483); each starts with an emoji
SciFi    == <<"U+1F680"," ","S","c","i","-","F","i">>
Fantasy  == <<"U+1F409"," ","F","a","n","t","a","s","y">>
\* datetime.now().strftime('%Y-%m-%d %H:%M:%S') (line 265)
Times    == {<<"2","0","2","4","-","0","5","-","0","1"," ","1","0",":","0","0",":","0","0">>}

\* the add-book form (lines 470-486)
Forms ==
    {[title |-> Dune,   author |-> Herbert, year |-> 1965, genre |-> SciFi],
     [title |-> Hobbit, author |-> Tolkien, year |-> 1937, genre |-> Fantasy]}

\* the search view's selectbox (line 538): the labels carry an emoji prefix
SearchBy == {"U+1F4D6 Title", "U+270D Author", "U+1F3F7 Category"}
SearchTerms == {<<>>, <<"d","u","n","e">>, <<"o","b","b">>}

Sections == {"library", "add", "search", "stats"}

(***************************************************************************)
(* Observations of the last step, kept in call:                            *)
(*   op, index   the step and the index it was given                       *)
(*   saved       the result of the step's persist_library_data call        *)
(*               ("none" when it made no call)                             *)
(*   ret         the return value of the function called ("none": None)    *)
(*   flag        the handler's success flag when the handler returned      *)
(*   error       st.error was called                                       *)
(*   term, field what the search view passed on                            *)
(***************************************************************************)
NoCall ==
    [op |-> "start", index |-> 0, saved |-> "none", ret |-> "none",
     flag |-> FALSE, error |-> FALSE, term |-> <<>>, field |-> ""]

BoolText(b) == IF b THEN "true" ELSE "false"

(***************************************************************************)
(* Session start: the session-state defaults (lines 198-207) and whatever  *)
(* library.json an earlier session left.                                   *)
(***************************************************************************)
EarlierBook == new_entry(Dune, Herbert, 1965, SciFi, TRUE, CHOOSE t \in Times : TRUE)

InitialFiles ==
    {NoFile,
     FileOf(json_dump(<<>>)),
     FileOf(json_dump(<<EarlierBook>>)),
     FileOf(<<Tok("[")>>)}

Init ==
    /\ book_collection = <<>>
    /\ search_output = <<>>
    /\ search_shared = <<>>
    /\ new_book_flag = FALSE
    /\ book_deleted_flag = FALSE
    /\ library_json \in InitialFiles
    /\ pc = "start"
    /\ rerun = FALSE
    /\ io_failures = 0
    /\ call = NoCall

(***************************************************************************)
(* The top of every script run: fetch_library_data() (line 432).           *)
(***************************************************************************)
Fetch ==
    /\ pc = "start"
    /\ LET f == fetch_library_data(book_collection, library_json) IN
         /\ book_collection' = f.book_collection
         /\ search_shared' = IF f.ret THEN shared_after_load(search_shared)
                                       ELSE search_shared
         /\ call' = [NoCall EXCEPT !.op = "fetch", !.ret = BoolText(f.ret),
                                   !.error = f.error]
    /\ pc' = "view"
    /\ UNCHANGED <<search_output, new_book_flag, book_deleted_flag, library_json, rerun,
                   io_failures>>

(***************************************************************************)
(* A run that only shows a view (lines 463-587 with no widget used).       *)
(* After st.rerun() the view is the library view.                          *)
(***************************************************************************)
Browse(view) ==
    /\ pc = "view"
    /\ rerun => view = "library"
    \* lines 493-495 and 530-532: the flag is shown as the success message and reset
    /\ new_book_flag' = IF view = "add" THEN FALSE ELSE new_book_flag
    /\ book_deleted_flag' = IF view = "library" THEN FALSE ELSE book_deleted_flag
    /\ call' = [NoCall EXCEPT !.op = "browse",
                   !.flag = (view = "add" /\ new_book_flag)
                            \/ (view = "library" /\ book_deleted_flag)]
    /\ pc' = "start"
    /\ rerun' = FALSE
    /\ UNCHANGED <<book_collection, search_output, search_shared, library_json,
                   io_failures>>

(***************************************************************************)
(* The add view with the form submitted (lines 463-495).                   *)
(***************************************************************************)
AddBook(form, is_read, now) ==
    /\ pc = "view" /\ ~ rerun
    /\ Len(book_collection) < MaxBooks
    /\ \E io \in IOOutcomes(Append(book_collection,
                  new_entry(form.title, form.author, form.year, form.genre, is_read, now)),
                  io_failures) :
         LET r == insert_book(book_collection, library_json, form.title, form.author,
                              form.year, form.genre, is_read, now, io)
         IN  /\ book_collection' = r.book_collection
             /\ library_json' = r.library_json
             \* lines 493-495: the flag is shown as the success message and reset
             /\ new_book_flag' = FALSE
             /\ call' = [NoCall EXCEPT !.op = "add", !.saved = r.saved,
                                       !.flag = r.new_book_flag,
                                       !.error = (r.saved = "failed")]
             /\ io_failures' = io_failures + Failed(io)
    /\ pc' = "start"
    /\ UNCHANGED <<search_output, search_shared, book_deleted_flag, rerun>>

(***************************************************************************)
(* The library view with a Remove button pressed (lines 519-521, 530-532). *)
(* delete_book is given any index, also those its guard rejects.           *)
(***************************************************************************)
RemoveBook(book_index) ==
    /\ pc = "view" /\ ~ rerun
    /\ \E io \in (IF 0 <= book_index /\ book_index < Len(book_collection)
                  THEN IOOutcomes(SubSeq(book_collection, 1, book_index) \o
                                  SubSeq(book_collection, book_index + 2,
                                         Len(book_collection)),
                                  io_failures)
                  ELSE {[kind |-> "ok", cut |-> 0]}) :
         LET r == delete_book(book_collection, library_json, book_deleted_flag,
                              book_index, io)
         IN  /\ book_collection' = r.book_collection
             /\ search_shared' = IF r.ret THEN shared_after_del(search_shared, book_index)
                                          ELSE search_shared
             /\ library_json' = r.library_json
             \* line 521: st.rerun() when delete_book returned True;
             \* otherwise lines 530-532 show and reset the flag
             /\ book_deleted_flag' = IF r.ret THEN r.book_deleted_flag ELSE FALSE
             /\ rerun' = r.ret
             /\ call' = [NoCall EXCEPT !.op = "remove", !.index = book_index,
                                       !.saved = r.saved, !.ret = BoolText(r.ret),
                                       !.flag = r.book_deleted_flag,
                                       !.error = (r.saved = "failed")]
             /\ io_failures' = io_failures + (IF r.saved = "failed" THEN 1 ELSE 0)
    /\ pc' = "start"
    /\ UNCHANGED <<search_output, new_book_flag>>

(***************************************************************************)
(* The library view with the status button of book i pressed               *)
(* (lines 505, 523-528): i comes from enumerate(book_collection).          *)
(***************************************************************************)
ToggleRead(i) ==
    /\ pc = "view" /\ ~ rerun
    /\ i \in 0..(Len(book_collection) - 1)
    /\ \E io \in IOOutcomes(book_collection, io_failures) :
         LET r == toggle_read_status(book_collection, library_json, i, io)
         IN  /\ book_collection' = r.book_collection
             /\ search_output' = results_seen(search_output, search_shared,
                                               r.book_collection)
             /\ library_json' = r.library_json
             /\ call' = [NoCall EXCEPT !.op = "toggle", !.index = i,
                                       !.saved = r.saved,
                                       !.error = (r.saved = "failed")]
             /\ io_failures' = io_failures + Failed(io)
    \* line 528: st.rerun()
    /\ rerun' = TRUE
    /\ pc' = "start"
    /\ UNCHANGED <<search_shared, new_book_flag, book_deleted_flag>>

(***************************************************************************)
(* The search view with the Search button pressed (lines 538-545).         *)
(***************************************************************************)
Search(search_term, search_by) ==
    /\ pc = "view" /\ ~ rerun
    /\ search_output' = IF search_term # <<>>
                        THEN find_books(book_collection, search_term, search_by)
                        ELSE search_output
    /\ search_shared' = IF search_term # <<>>
                        THEN found_at(book_collection, search_term, search_by)
                        ELSE search_shared
    /\ call' = [NoCall EXCEPT !.op = "search", !.term = search_term,
                              !.field = search_by]
    /\ pc' = "start"
    /\ UNCHANGED <<book_collection, new_book_flag, book_deleted_flag, library_json, rerun,
                   io_failures>>

Next ==
    \/ Fetch
    \/ \E view \in Sections : Browse(view)
    \/ \E form \in Forms, is_read \in BOOLEAN, now \in Times : AddBook(form, is_read, now)
    \/ \E book_index \in -1..MaxBooks : RemoveBook(book_index)
    \/ \E i \in 0..(MaxBooks - 1) : ToggleRead(i)
    \/ \E search_term \in SearchTerms, search_by \in SearchBy : Search(search_term, search_by)

Spec == Init /\ [][Next]_vars

(***************************************************************************)
(* persist_library_data step by step (lines 237-243): what a reader of     *)
(* library.json can see while one save runs.                               *)
(*   pc = "save_call"    the function was called                           *)
(*   pc = "save_opened"  open('library.json', 'w') returned (line 238)     *)
(*   pc = "save_done"    the function returned                             *)
(* call.previous is library.json when the save began.                      *)
(***************************************************************************)
SavedBooks ==
    {new_entry(form.title, form.author, form.year, form.genre, TRUE, now) :
        form \in Forms, now \in Times}

SeqsUpTo(S, n) == UNION {[1..m -> S] : m \in 0..n}

SaveInit ==
    /\ book_collection \in SeqsUpTo(SavedBooks, MaxBooks) \ {<<>>}
    /\ library_json \in {FileOf(json_dump(books)) : books \in SeqsUpTo(SavedBooks, MaxBooks)}
    /\ search_output = <<>>
    /\ search_shared = <<>>
    /\ new_book_flag = FALSE
    /\ book_deleted_flag = FALSE
    /\ pc = "save_call"
    /\ rerun = FALSE
    /\ io_failures = 0
    /\ call = [op |-> "persist", previous |-> library_json, ret |-> "none"]

SaveUnchanged ==
    UNCHANGED <<book_collection, search_output, search_shared, new_book_flag,
                book_deleted_flag, rerun>>

\* line 238: open(..., 'w') creates or truncates the file
SaveOpen ==
    /\ pc = "save_call"
    /\ library_json' = FileOf(<<>>)
    /\ pc' = "save_opened"
    /\ UNCHANGED <<call, io_failures>>
    /\ SaveUnchanged

\* line 238 raises: lines 241-243
SaveOpenFails ==
    /\ pc = "save_call"
    /\ io_failures < MaxFailures
    /\ io_failures' = io_failures + 1
    /\ call' = [call EXCEPT !.ret = "false"]
    /\ pc' = "save_done"
    /\ UNCHANGED library_json
    /\ SaveUnchanged

\* line 239: json.dump writes the text piece by piece
SaveWrite ==
    /\ pc = "save_opened"
    /\ Len(library_json.data) < Len(json_dump(book_collection))
    /\ library_json' = FileOf(SubSeq(json_dump(book_collection), 1,
                                     Len(library_json.data) + 1))
    /\ UNCHANGED <<pc, call, io_failures>>
    /\ SaveUnchanged

\* line 239 raises: lines 241-243
SaveWriteFails ==
    /\ pc = "save_opened"
    /\ Len(library_json.data) < Len(json_dump(book_collection))
    /\ io_failures < MaxFailures
    /\ io_failures' = io_failures + 1
    /\ call' = [call EXCEPT !.ret = "false"]
    /\ pc' = "save_done"
    /\ UNCHANGED library_json
    /\ SaveUnchanged

\* line 240: return True
SaveReturn ==
    /\ pc = "save_opened"
    /\ Len(library_json.data) = Len(json_dump(book_collection))
    /\ call' = [call EXCEPT !.ret = "true"]
    /\ pc' = "save_done"
    /\ UNCHANGED <<library_json, io_failures>>
    /\ SaveUnchanged

SaveNext == SaveOpen \/ SaveOpenFails \/ SaveWrite \/ SaveWriteFails \/ SaveReturn

SpecSave == SaveInit /\ [][SaveNext]_vars

(***************************************************************************)
(* find_books called with any term and any of the fields its docstring     *)
(* names (line 299), on any collection.                                    *)
(***************************************************************************)
SearchFields == {"Title", "Author", "Genre"}

SearchBooks ==
    {new_entry(Dune, Herbert, 1965, SciFi, TRUE, CHOOSE t \in Times : TRUE),
     new_entry(Hobbit, Tolkien, 1937, Fantasy, FALSE, CHOOSE t \in Times : TRUE),
     new_entry(<<"d","u","n","e","s">>, <<"H","E","R","B">>, 1970,
               <<"f","a","n">>, FALSE, CHOOSE t \in Times : TRUE)}

Queries ==
    {<<>>, <<"d","u","n","e">>, <<"D","U","N","E">>, <<"o","b","b">>, <<"h","e","r","b">>,
     <<"F","a","n">>, <<"f","a","n">>, <<"z">>}

SearchInit ==
    /\ book_collection \in SeqsUpTo(SearchBooks, MaxBooks)
    /\ search_output = <<>>
    /\ search_shared = <<>>
    /\ new_book_flag = FALSE
    /\ book_deleted_flag = FALSE
    /\ library_json = NoFile
    /\ pc = "view"
    /\ rerun = FALSE
    /\ io_failures = 0
    /\ call = NoCall

FindBooks(search_query, search_field) ==
    /\ search_output' = find_books(book_collection, search_query, search_field)
    /\ search_shared' = found_at(book_collection, search_query, search_field)
    /\ call' = [NoCall EXCEPT !.op = "find_books", !.term = search_query,
                              !.field = search_field]
    /\ UNCHANGED <<book_collection, new_book_flag, book_deleted_flag, library_json,
                   pc, rerun, io_failures>>

SearchNext ==
    \E search_query \in Queries, search_field \in SearchFields :
        FindBooks(search_query, search_field)

SpecSearch == SearchInit /\ [][SearchNext]_vars

(***************************************************************************)
(* A collection saved by one session and loaded by the next               *)
(* (persist_library_data, then lines 198-199 and 432 of a new session).    *)
(* call.original is the collection that was saved.                         *)
(***************************************************************************)
RoundTripTitles ==
    {Dune, <<"a","\"","b">>, <<"\\","n">>, <<"\\","u","U+1F409">>, <<"U+1F680","\\">>}

RoundTripBooks ==
    {new_entry(title, Herbert, year, Fantasy, is_read, CHOOSE t \in Times : TRUE) :
        title \in RoundTripTitles, year \in {1000, 2024}, is_read \in BOOLEAN}

RoundTripInit ==
    /\ book_collection \in SeqsUpTo(RoundTripBooks, MaxBooks) \ {<<>>}
    /\ search_output = <<>>
    /\ search_shared = <<>>
    /\ new_book_flag = FALSE
    /\ book_deleted_flag = FALSE
    /\ library_json = NoFile
    /\ pc = "save"
    /\ rerun = FALSE
    /\ io_failures = 0
    /\ call = [op |-> "start", original |-> book_collection, ret |-> "none"]

RoundTripSave ==
    /\ pc = "save"
    /\ LET saved == persist_library_data(book_collection, library_json,
                                         [kind |-> "ok", cut |-> 0])
       IN  /\ library_json' = saved.library_json
           /\ call' = [call EXCEPT !.op = "persist", !.ret = BoolText(saved.ret)]
    /\ pc' = "new_session"
    /\ UNCHANGED <<book_collection, search_output, search_shared, new_book_flag, book_deleted_flag,
                   rerun, io_failures>>

\* lines 198-199 in a new session
RoundTripNewSession ==
    /\ pc = "new_session"
    /\ book_collection' = <<>>
    /\ pc' = "start"
    /\ UNCHANGED <<search_output, search_shared, new_book_flag, book_deleted_flag, library_json,
                   rerun, io_failures, call>>

\* line 432
RoundTripLoad ==
    /\ pc = "start"
    /\ LET f == fetch_library_data(book_collection, library_json) IN
         /\ book_collection' = f.book_collection
         /\ search_shared' = IF f.ret THEN shared_after_load(search_shared)
                                       ELSE search_shared
         /\ call' = [call EXCEPT !.op = "fetch", !.ret = BoolText(f.ret)]
    /\ pc' = "view"
    /\ UNCHANGED <<search_output, new_book_flag, book_deleted_flag, library_json,
                   rerun, io_failures>>

RoundTripNext == RoundTripSave \/ RoundTripNewSession \/ RoundTripLoad

SpecRoundTrip == RoundTripInit /\ [][RoundTripNext]_vars

(***************************************************************************)
(* The session when find_books is given the field names it compares with   *)
(* (lines 303-310), so that a search stores the records it finds; the runs *)
(* that add, remove, toggle and reload are those of Spec.                  *)
(***************************************************************************)
FindBooksRun(search_query, search_field) ==
    /\ pc = "view" /\ ~ rerun
    /\ search_output' = find_books(book_collection, search_query, search_field)
    /\ search_shared' = found_at(book_collection, search_query, search_field)
    /\ call' = [NoCall EXCEPT !.op = "find_books", !.term = search_query,
                              !.field = search_field]
    /\ pc' = "start"
    /\ UNCHANGED <<book_collection, new_book_flag, book_deleted_flag, library_json, rerun,
                   io_failures>>

SessionNext ==
    \/ Fetch
    \/ \E view \in Sections : Browse(view)
    \/ \E form \in Forms, is_read \in BOOLEAN, now \in Times : AddBook(form, is_read, now)
    \/ \E book_index \in -1..MaxBooks : RemoveBook(book_index)
    \/ \E i \in 0..(MaxBooks - 1) : ToggleRead(i)
    \/ \E search_query \in SearchTerms \ {<<>>}, search_field \in SearchFields :
          FindBooksRun(search_query, search_field)

SpecSession == Init /\ [][SessionNext]_vars

(***************************************************************************)
(* The statistics view (lines 565-587) over any collection: call.stats is  *)
(* what compute_library_metrics returned to it.                            *)
(***************************************************************************)
MaxStatsBooks == 4

History == <<"U+1F4DC"," ","H","i","s","t","o","r","y">>

StatsBooks ==
    {new_entry(Dune,   Herbert, 1965, SciFi,   TRUE,  CHOOSE t \in Times : TRUE),
     new_entry(Dune,   Herbert, 1969, SciFi,   FALSE, CHOOSE t \in Times : TRUE),
     new_entry(Hobbit, Tolkien, 1937, Fantasy, TRUE,  CHOOSE t \in Times : TRUE),
     new_entry(Hobbit, Tolkien, 1969, Fantasy, FALSE, CHOOSE t \in Times : TRUE),
     new_entry(Dune,   Tolkien, 1965, History, FALSE, CHOOSE t \in Times : TRUE)}

StatsInit ==
    /\ book_collection \in SeqsUpTo(StatsBooks, MaxStatsBooks)
    /\ search_output = <<>>
    /\ search_shared = <<>>
    /\ new_book_flag = FALSE
    /\ book_deleted_flag = FALSE
    /\ library_json = NoFile
    /\ pc = "view"
    /\ rerun = FALSE
    /\ io_failures = 0
    /\ call = [op |-> "start", stats |-> compute_library_metrics(<<>>)]

\* lines 568-569: an empty collection gets the warning instead of the metrics
StatsViewEmpty ==
    /\ pc = "view"
    /\ book_collection = <<>>
    /\ call' = [call EXCEPT !.op = "stats_empty"]
    /\ pc' = "start"
    /\ UNCHANGED <<book_collection, search_output, search_shared, new_book_flag, book_deleted_flag,
                   library_json, rerun, io_failures>>

\* lines 570-571
StatsView ==
    /\ pc = "view"
    /\ book_collection # <<>>
    /\ call' = [op |-> "stats", stats |-> compute_library_metrics(book_collection)]
    /\ pc' = "start"
    /\ UNCHANGED <<book_collection, search_output, search_shared, new_book_flag, book_deleted_flag,
                   library_json, rerun, io_failures>>

StatsNext == StatsViewEmpty \/ StatsView

SpecStats == StatsInit /\ [][StatsNext]_vars

(***************************************************************************)
(* Properties.                                                             *)
(***************************************************************************)
\* library.json holds exactly the in-memory collection
FileHoldsCollection ==
    /\ library_json.exists
    /\ json_load(library_json.data) = [ok |-> TRUE, value |-> book_collection]

\* the last step was a handler that changed the collection
Mutated ==
    /\ pc = "start"
    /\ \/ call.op \in {"add", "toggle"}
       \/ call.op = "remove" /\ call.ret = "true"

C2_SaveFailureSurfaced ==
    call.saved = "failed" => (call.ret # "true" /\ ~ call.flag)

RemoveStep == pc = "view" /\ call'.op = "remove"

\* C3: removeAt(index) on a collection of length n reports failure and leaves
\* the collection and library.json unchanged when index < 0 or index >= n;
\* otherwise it succeeds and the collection is the prior one without the
\* record at index, the later records shifted left by one.
C3_RemoveAt ==
    [][RemoveStep =>
        LET index == call'.index
            n     == Len(book_collection)
        IN  IF index < 0 \/ index >= n
            THEN /\ call'.ret = "false"
                 /\ book_collection' = book_collection
                 /\ library_json' = library_json
            ELSE /\ call'.ret = "true"
                 /\ Len(book_collection') = n - 1
                 /\ \A k \in 1..(n - 1) :
                      book_collection'[k] = IF k <= index THEN book_collection[k]
                                            ELSE book_collection[k + 1]]_vars

\* removeAt(2) was rejected on a two-book collection
C3_Witness ==
    /\ call.op = "remove" /\ call.ret = "false" /\ call.index = 2
    /\ Len(book_collection) = 2 /\ pc = "start"

ToggleStep == pc = "view" /\ call'.op = "toggle"

OtherFields == Keys \ {"read_status"}

FetchStep == pc = "start" /\ pc' = "view"

\* what a load does when library.json exists and is well-formed
LoadReplaces ==
    (library_json.exists /\ json_load(library_json.data).ok)
        => book_collection' = json_load(library_json.data).value

\* C5 as claimed: a load with no library.json yields the empty collection and
\* no error, whatever the collection held before; a load of a well-formed
\* library.json replaces the whole collection with the file's contents.
C5_LoadMissingFileGivesEmpty ==
    [][FetchStep =>
        /\ ~ library_json.exists => (book_collection' = <<>> /\ ~ call'.error)
        /\ LoadReplaces]_vars

\* C5 as amended: a load with no library.json raises no error and leaves the
\* collection as it was (empty at session start); a load of a well-formed
\* library.json replaces the whole collection with the file's contents.
C5_LoadMissingFileKeepsCollection ==
    [][FetchStep =>
        /\ ~ library_json.exists => (book_collection' = book_collection /\ ~ call'.error)
        /\ LoadReplaces]_vars

\* a load found no library.json while the collection held a book
C5_Witness ==
    /\ call.op = "fetch" /\ pc = "view"
    /\ ~ library_json.exists /\ book_collection # <<>>

\* C6: while a save runs, and after it failed, a reader of library.json sees
\* the complete previous snapshot or the complete new one.
C6_ReaderSeesWholeSnapshot ==
    library_json \in {call.previous, FileOf(json_dump(book_collection))}

\* C7: a non-empty collection that was saved and then loaded is the
\* collection that was saved: same records, same order, same field values.
C7_RoundTrip ==
    (pc = "view" /\ call.op = "fetch") =>
        (call.ret = "true" /\ book_collection = call.original)

\* two books were saved and loaded, the first with a backslash in its title
C7_Witness ==
    /\ pc = "view" /\ call.op = "fetch"
    /\ Len(call.original) = 2
    /\ call.original[1].title = <<"\\","n">>
    /\ call.original[2].title = <<"a","\"","b">>

\* the field of the book the search view's selection stands for
ChosenField(book, search_by) ==
    IF search_by = "U+1F4D6 Title" THEN book.title
    ELSE IF search_by = "U+270D Author" THEN book.author
    ELSE book.genre

ContainsIgnoringCase(term, text) == str_in(lower(term), lower(text))

\* C8: a search for a non-empty term returns exactly the records whose chosen
\* field contains the term as a case-insensitive substring, in their order
\* in the collection.
C8_SearchReturnsExactlyTheMatches ==
    (pc = "start" /\ call.op = "search" /\ call.term # <<>>) =>
        search_output =
            SelectSeq(book_collection,
                      LAMBDA book : ContainsIgnoringCase(call.term,
                                                         ChosenField(book, call.field)))

C10_PercentReadInRange ==
    LET metrics == compute_library_metrics(book_collection)
        percent == metrics.percent_read
    IN  /\ metrics.total_books = Len(book_collection)
        /\ metrics.read_books =
             Cardinality({k \in 1..Len(book_collection) : book_collection[k].read_status})
        /\ 0 <= metrics.read_books /\ metrics.read_books <= metrics.total_books
        /\ percent.den > 0
        /\ 0 <= percent.num /\ percent.num <= 100 * percent.den
        /\ metrics.total_books = 0 => percent.num = 0

\* a collection with one read and one unread book: percent_read is 50
C10_Witness ==
    /\ Len(book_collection) = 2
    /\ book_collection[1].read_status /\ ~ book_collection[2].read_status
    /\ compute_library_metrics(book_collection).percent_read = [num |-> 100, den |-> 2]

\* the sum of the counts of a statistic
RECURSIVE SumOfCounts(_)
SumOfCounts(items) ==
    IF items = <<>> THEN 0 ELSE Head(items).v + SumOfCounts(Tail(items))

\* C11: the genre counts returned for a collection hold every genre of the
\* collection once, each with the number of its records, the counts adding up to
\* total_books, in descending order of count and, for equal counts, in the order
\* each genre first occurs in the collection; the decade counts hold every decade
\* floor(year / 10) * 10 of the collection once, each with the number of its
\* records, in ascending order of decade.
C11_GenreAndDecadeCounts ==
    call.op = "stats" =>
        LET books   == book_collection
            genres  == call.stats.genres
            decades == call.stats.decades
            WithGenre(g) == {i \in DOMAIN books : books[i].genre = g}
            First(g) == CHOOSE i \in WithGenre(g) : \A j \in WithGenre(g) : i <= j
            InDecade(d) == {i \in DOMAIN books :
                               /\ d <= books[i].publication_year
                               /\ books[i].publication_year < d + 10}
        IN  /\ {genres[n].k : n \in DOMAIN genres} = {books[i].genre : i \in DOMAIN books}
            /\ \A n \in DOMAIN genres : genres[n].v = Cardinality(WithGenre(genres[n].k))
            /\ SumOfCounts(genres) = call.stats.total_books
            /\ \A m, n \in DOMAIN genres :
                   m < n => \/ genres[m].v > genres[n].v
                            \/ /\ genres[m].v = genres[n].v
                               /\ First(genres[m].k) < First(genres[n].k)
            /\ \A i \in DOMAIN books : \E n \in DOMAIN decades : i \in InDecade(decades[n].k)
            /\ \A n \in DOMAIN decades :
                   /\ decades[n].k % 10 = 0
                   /\ decades[n].v = Cardinality(InDecade(decades[n].k))
                   /\ decades[n].v > 0
            /\ \A m, n \in DOMAIN decades : m < n => decades[m].k < decades[n].k

\* a collection whose first genre ties with a later one and is outnumbered by the
\* last, and whose first decade is not the earliest
C11_Witness ==
    /\ call.op = "stats"
    /\ Len(book_collection) = 4
    /\ book_collection[1].genre = History
    /\ book_collection[1].publication_year = 1965
    /\ [n \in DOMAIN call.stats.genres |-> call.stats.genres[n].k]
           = <<Fantasy, History, SciFi>>
    /\ [n \in DOMAIN call.stats.genres |-> call.stats.genres[n].v] = <<2, 1, 1>>
    /\ call.stats.decades = <<[k |-> 1930, v |-> 1], [k |-> 1960, v |-> 3]>>

=============================================================================
